---- MODULE Spec2Model ----
(***************************************************************************)
(* CargoConnect API (src/main.py, src/schemas.py): admin login and bearer  *)
(* tokens, the shipment collection, and the request handlers that read and *)
(* write it.  Handlers that make several store calls are split at those    *)
(* calls, so requests served by concurrent workers interleave there.       *)
(*                                                                         *)
(* Time is counted in ticks, TicksPerSec ticks to the second, so that the  *)
(* truncation of instants to whole seconds (JWT exp, tracking code) shows; *)
(* instant 0 is when the service starts.  The file system and the mail     *)
(* transport are never read back: file and mail hold what the latest step  *)
(* handed to them.                                                         *)
(* Optional values are sequences: <<>> is None, <<v>> is the value v.      *)
(***************************************************************************)
EXTENDS Integers, Sequences, FiniteSets, TLC

VARIABLES
    now,      \* the clock, in ticks
    store,    \* db["shipment"]: the documents in insertion order
    file,     \* the file the latest step wrote under logs/, if any
    mail,     \* the message the latest step handed to the SMTP server, if any
    upd,      \* per worker, the update_shipment request it is serving
    prf,      \* the upload_proof request being served
    issued,   \* the tokens that logins have handed out, and when
    applied,  \* per document, the statuses that update requests have set
    last      \* the latest step: its route, inputs, outcome and result

vars == <<now, store, file, mail, upd, prf, issued, applied, last>>

----------------------------------------------------------------------------
(* Bounds of the model *)

TicksPerSec == 2
NumWorkers == 2
MaxIssued == 1
\* Spec and SpecSeq: clock ticks, shipments, status updates
MaxTicks == 1
MaxShipments == 1
MaxUpdates == 2
\* SpecOne: shipments, status updates
OneShipments == 1
OneUpdates == 1
\* SpecCodes: clock ticks, shipments
CodeTicks == 2
CodeShipments == 2
\* SpecAuth: clock steps
AuthAdvances == 4
\* SpecRace: shipments, status updates
RaceShipments == 1
RaceUpdates == 2
\* SpecChain: shipments, status updates
ChainShipments == 1
ChainUpdates == 2
\* SpecList: shipments stored at the start, shipments created, clock ticks
BulkSize == 200
ListCreates == 1
ListTicks == 5

----------------------------------------------------------------------------
(* Configuration read at process start: main.py 27-36 *)

SECRET_KEY == "dev-secret-change"
ACCESS_TOKEN_EXPIRE_MINUTES == 60 * 12
ADMIN_EMAIL == "admin@cargoconnect.com"
ADMIN_PASSWORD == "Admin@123"

None == <<>>
Some(v) == <<v>>

\* pwd_context.hash: a salted one-way hash, told apart by the plaintext only
pwd_hash(plain) == <<"bcrypt", plain>>
ADMIN_HASH == pwd_hash(ADMIN_PASSWORD)

verify_password(plain_password, hashed_password) ==
    pwd_hash(plain_password) = hashed_password

----------------------------------------------------------------------------
(* The clock *)

\* whole seconds of an instant, as int(now.timestamp()) and timegm(...) give
Seconds(t) == t \div TicksPerSec

LifetimeTicks == ACCESS_TOKEN_EXPIRE_MINUTES * 60 * TicksPerSec

\* the clock moves by one tick, or to one tick short of a token lifetime later
Leap == LifetimeTicks - 1
ClockSteps == {1, Leap}

\* how many clock steps lead to instant t
Advances(t) == (t \div Leap) + (t % Leap)

----------------------------------------------------------------------------
(* Tokens: jose.jwt as used by main.py 46-62 *)

\* HTTP outcomes of the handlers
Ok == [status |-> 200, detail |-> "OK"]
InvalidCredentials == [status |-> 401, detail |-> "Invalid credentials"]
NotAuthenticated == [status |-> 401, detail |-> "Not authenticated"]
CredentialsException == [status |-> 401, detail |-> "Could not validate credentials"]
TrackingNotFound == [status |-> 404, detail |-> "Tracking Number Not Found"]
ShipmentNotFound == [status |-> 404, detail |-> "Shipment not found"]
ValidationError == [status |-> 422, detail |-> "Unprocessable Entity"]
InternalError == [status |-> 500, detail |-> "Internal Server Error"]

NoToken == [kind |-> "missing", key |-> "none", sub |-> "none", exp |-> 0]
Garbage == [kind |-> "malformed", key |-> "none", sub |-> "none", exp |-> 0]

\* jwt.encode: a datetime exp claim is stored as whole seconds
jwt_encode(sub, expire, key) ==
    [kind |-> "jwt", key |-> key, sub |-> sub, exp |-> Seconds(expire)]

create_access_token_short(sub, t) ==
    jwt_encode(sub, t + LifetimeTicks - TicksPerSec, SECRET_KEY)

\* the token of a login at instant t: exp is a lifetime later
create_access_token(sub, t) ==
    jwt_encode(sub, t + LifetimeTicks, SECRET_KEY)

\* jwt.decode: TRUE when it raises JWTError (malformed, bad signature, or
\* exp earlier than the current whole second)
jwt_decode_raises(token, t) ==
    \/ token.kind # "jwt"
    \/ token.key # SECRET_KEY
    \/ token.exp < Seconds(t)

get_current_admin_any_sub(token, t) ==
    IF token.kind = "missing" THEN NotAuthenticated
    ELSE IF jwt_decode_raises(token, t) THEN CredentialsException
    ELSE Ok

\* the dependency of every admin route: Ok, or the 401 it raises
get_current_admin(token, t) ==
    IF token.kind = "missing" THEN NotAuthenticated
    ELSE IF jwt_decode_raises(token, t) THEN CredentialsException
    ELSE IF token.sub = "none" \/ token.sub # ADMIN_EMAIL THEN CredentialsException
    ELSE Ok

----------------------------------------------------------------------------
(* Login: main.py 98-103 *)

Usernames == {ADMIN_EMAIL, "mallory@example.com"}
Passwords == {ADMIN_PASSWORD, "guess"}

login_and(username, password) ==
    IF username # ADMIN_EMAIL /\ ~verify_password(password, ADMIN_HASH)
    THEN InvalidCredentials
    ELSE Ok

\* the outcome of a login attempt
login(username, password) ==
    IF username # ADMIN_EMAIL \/ ~verify_password(password, ADMIN_HASH)
    THEN InvalidCredentials
    ELSE Ok

----------------------------------------------------------------------------
(* Schemas: schemas.py *)

StatusLiteral ==
    {"Order Received", "Package Pickup", "Sorting Center", "In Transit",
     "Customs Clearance", "Out for Delivery", "Delivered"}

\* EmailStr accepts the syntactically valid addresses
EmailStr(s) == s \in {"bob@example.com"}

\* request bodies of POST /shipments
ValidBodies ==
    [sender_name : {"Ann", "Cy"}, receiver_name : {"Bob"},
     receiver_email : {"bob@example.com"},
     receiver_phone : {None}, address : {"1 Main St"}, country : {"NL"},
     weight : {5}, description : {None}, amount : {20},
     origin : {"AMS"}, destination : {"RTM"}]

AnyBody == CHOOSE b \in ValidBodies : b.sender_name = "Ann"

CreateBodies ==
    ValidBodies \cup {[AnyBody EXCEPT !.weight = -1],
                      [AnyBody EXCEPT !.amount = -1],
                      [AnyBody EXCEPT !.receiver_email = "not-an-email"]}

ShipmentCreate_no_amount(body) ==
    EmailStr(body.receiver_email) /\ body.weight >= 0

\* ShipmentCreate: EmailStr, weight >= 0, amount >= 0
ShipmentCreate(body) ==
    EmailStr(body.receiver_email) /\ body.weight >= 0 /\ body.amount >= 0

Locations == {[lat |-> Some(52), lng |-> Some(4), city |-> None]}

\* request bodies of PATCH /shipments/{code}
UpdateBodies ==
    [status : {None, Some("In Transit"), Some("Delivered")},
     location : {None} \cup {Some(l) : l \in Locations}]
        \cup {[status |-> Some("Lost"), location |-> None]}

\* the body that supplies neither a status nor a location
EmptyUpdate == [status |-> None, location |-> None]

\* bodies that supply a status: each of the enumeration, and one outside it
StatusBodies ==
    [status : {Some(s) : s \in StatusLiteral \cup {"Lost"}}, location : {None}]

ShipmentUpdate_any(body) == TRUE

\* ShipmentUpdate: status is absent or one of StatusLiteral
ShipmentUpdate(body) ==
    body.status = None \/ body.status[1] \in StatusLiteral

\* the content fields a shipment is created with
ContentFields ==
    {"sender_name", "receiver_name", "receiver_email", "receiver_phone",
     "address", "country", "weight", "description", "amount", "origin",
     "destination"}

Content(r) == [f \in ContentFields |-> r[f]]

----------------------------------------------------------------------------
(* Tracking codes: main.py 113-117 *)

RECURSIVE NumDigits(_)
NumDigits(n) == IF n < 10 THEN 1 ELSE 1 + NumDigits(n \div 10)

\* str(n)[-4:] as <<its length, its value>>
Last4(n) == IF n < 10000 THEN <<NumDigits(n), n>> ELSE <<4, n % 10000>>

\* CC-YYYYMMDD-XXXX: the UTC day and the last four digits of the epoch second
generate_tracking_code(t) ==
    [date |-> Seconds(t) \div 86400, suffix |-> Last4(Seconds(t))]

\* a code no shipment was given
UnknownCode == [date |-> 0, suffix |-> <<4, 9999>>]

----------------------------------------------------------------------------
(* The shipment collection: pymongo calls of main.py *)

Range(s) == {s[i] : i \in 1..Len(s)}

Matching(coll, code) == {i \in 1..Len(coll) : coll[i].tracking_code = code}

find_one_or_first(coll, code) ==
    IF coll = <<>> THEN None
    ELSE IF Matching(coll, code) = {} THEN Some(coll[1])
    ELSE Some(coll[CHOOSE i \in Matching(coll, code) :
                       \A j \in Matching(coll, code) : i <= j])

\* find_one({"tracking_code": code}): the first match in natural order
find_one(coll, code) ==
    IF Matching(coll, code) = {} THEN None
    ELSE Some(coll[CHOOSE i \in Matching(coll, code) :
                       \A j \in Matching(coll, code) : i <= j])

\* find_one({"_id": id})
find_by_id(coll, id) == coll[CHOOSE i \in 1..Len(coll) : coll[i]._id = id]

\* update_one({"_id": id}, {"$set": updates}): only the named fields change
update_by_id(coll, id, updates) ==
    [i \in 1..Len(coll) |->
        IF coll[i]._id = id
        THEN [f \in DOMAIN coll[i] |->
                 IF f \in DOMAIN updates THEN updates[f] ELSE coll[i][f]]
        ELSE coll[i]]

\* update_one({"tracking_code": code}, {"$set": updates}): first match, if any
update_by_code(coll, code, updates) ==
    IF find_one(coll, code) = None THEN coll
    ELSE update_by_id(coll, find_one(coll, code)[1]._id, updates)

insert_one_upsert(coll, doc) ==
    IF Matching(coll, doc.tracking_code) = {}
    THEN Append(coll, [f \in DOMAIN doc \cup {"_id"} |->
                          IF f = "_id" THEN Len(coll) + 1 ELSE doc[f]])
    ELSE [i \in 1..Len(coll) |->
             IF i \in Matching(coll, doc.tracking_code)
             THEN [f \in DOMAIN doc \cup {"_id"} |->
                      IF f = "_id" THEN coll[i]._id ELSE doc[f]]
             ELSE coll[i]]

\* insert_one: the document is appended under a fresh _id
insert_one(coll, doc) ==
    Append(coll, [f \in DOMAIN doc \cup {"_id"} |->
                     IF f = "_id" THEN Len(coll) + 1 ELSE doc[f]])

\* the document create_shipment builds (main.py 123-139)
Shipment(tracking_code, body, t) ==
    [tracking_code |-> tracking_code,
     status |-> "Order Received",
     origin |-> body.origin,
     destination |-> body.destination,
     sender_name |-> body.sender_name,
     receiver_name |-> body.receiver_name,
     receiver_email |-> body.receiver_email,
     receiver_phone |-> body.receiver_phone,
     address |-> body.address,
     country |-> body.country,
     weight |-> body.weight,
     description |-> body.description,
     amount |-> body.amount,
     timeline |-> <<[status |-> "Order Received", timestamp |-> t]>>,
     location |-> None,
     last_update |-> Some(t),
     proof_of_delivery_url |-> None]

PageSize == 200

\* the length of a page of coll
Page(coll) == IF Len(coll) < PageSize THEN Len(coll) ELSE PageSize

\* sort("last_update", -1): the orders of the documents that are descending
\* in last_update; documents with the same last_update come in any order
sort_desc(coll) ==
    LET n == Len(coll)
        key == [i \in 1..n |-> coll[i].last_update[1]]
        Tied == {i \in 1..n : \E j \in 1..n : j # i /\ key[j] = key[i]}
        Same(i) == {j \in Tied : key[j] = key[i]}
        \* an order for each group of documents with the same last_update
        Breaks == {b \in [Tied -> 1..Cardinality(Tied)] :
                      \A i \in Tied :
                          /\ b[i] <= Cardinality(Same(i))
                          /\ \A j \in Same(i) : j # i => b[j] # b[i]}
        Before(b, j, i) ==
            \/ key[j] > key[i]
            \/ key[j] = key[i] /\ j # i /\ b[j] < b[i]
        \* each document paired with its place in the order
        Placed(b) ==
            {<<1 + Cardinality({j \in 1..n : Before(b, j, i)}), i>> : i \in 1..n}
    IN  {LET placed == Placed(b)
         IN  [k \in 1..n |-> coll[(CHOOSE p \in placed : p[1] = k)[2]]] :
            b \in Breaks}

find_limit_sort(coll) == sort_desc(SubSeq(coll, 1, Page(coll)))

\* find().sort("last_update", -1).limit(200): the first page of the sorted
\* documents
find_sort_limit(coll) ==
    {SubSeq(sorted, 1, Page(coll)) : sorted \in sort_desc(coll)}

TimelineEntry(status, t) == [status |-> status, timestamp |-> t]

Updates_overwrite(doc, body, t) ==
    LET stamp == [last_update |-> Some(t)]
        loc == IF body.location # None
               THEN [location |-> body.location] ELSE <<>>
        st == IF body.status # None
              THEN [status |-> body.status[1],
                    timeline |-> <<TimelineEntry(body.status[1], t)>>]
              ELSE <<>>
    IN  [f \in DOMAIN stamp \cup DOMAIN loc \cup DOMAIN st |->
            IF f \in DOMAIN st THEN st[f]
            ELSE IF f \in DOMAIN loc THEN loc[f] ELSE stamp[f]]

Updates_no_stamp(doc, body, t) ==
    LET stamp == IF body.status # None \/ body.location # None
                 THEN [last_update |-> Some(t)] ELSE <<>>
        loc == IF body.location # None
               THEN [location |-> body.location] ELSE <<>>
        st == IF body.status # None
              THEN [status |-> body.status[1],
                    timeline |-> Append(doc.timeline,
                                        TimelineEntry(body.status[1], t))]
              ELSE <<>>
    IN  [f \in DOMAIN stamp \cup DOMAIN loc \cup DOMAIN st |->
            IF f \in DOMAIN st THEN st[f]
            ELSE IF f \in DOMAIN loc THEN loc[f] ELSE stamp[f]]

Updates_readdress(doc, body, t) ==
    LET stamp == [last_update |-> Some(t)]
        loc == IF body.location # None
               THEN [location |-> body.location, address |-> "at location"]
               ELSE <<>>
        st == IF body.status # None
              THEN [status |-> body.status[1],
                    timeline |-> Append(doc.timeline,
                                        TimelineEntry(body.status[1], t))]
              ELSE <<>>
    IN  [f \in DOMAIN stamp \cup DOMAIN loc \cup DOMAIN st |->
            IF f \in DOMAIN st THEN st[f]
            ELSE IF f \in DOMAIN loc THEN loc[f] ELSE stamp[f]]

Updates_no_entry(doc, body, t) ==
    LET stamp == [last_update |-> Some(t)]
        loc == IF body.location # None
               THEN [location |-> body.location] ELSE <<>>
        st == IF body.status # None
              THEN [status |-> body.status[1]]
              ELSE <<>>
    IN  [f \in DOMAIN stamp \cup DOMAIN loc \cup DOMAIN st |->
            IF f \in DOMAIN st THEN st[f]
            ELSE IF f \in DOMAIN loc THEN loc[f] ELSE stamp[f]]

Updates_clear_proof(doc, body, t) ==
    LET stamp == [last_update |-> Some(t), proof_of_delivery_url |-> None]
        loc == IF body.location # None
               THEN [location |-> body.location] ELSE <<>>
        st == IF body.status # None
              THEN [status |-> body.status[1],
                    timeline |-> Append(doc.timeline,
                                        TimelineEntry(body.status[1], t))]
              ELSE <<>>
    IN  [f \in DOMAIN stamp \cup DOMAIN loc \cup DOMAIN st |->
            IF f \in DOMAIN st THEN st[f]
            ELSE IF f \in DOMAIN loc THEN loc[f] ELSE stamp[f]]

\* the $set document of update_shipment (main.py 168-177)
Updates(doc, body, t) ==
    LET stamp == [last_update |-> Some(t)]
        loc == IF body.location # None
               THEN [location |-> body.location] ELSE <<>>
        st == IF body.status # None
              THEN [status |-> body.status[1],
                    timeline |-> Append(doc.timeline,
                                        TimelineEntry(body.status[1], t))]
              ELSE <<>>
    IN  [f \in DOMAIN stamp \cup DOMAIN loc \cup DOMAIN st |->
            IF f \in DOMAIN st THEN st[f]
            ELSE IF f \in DOMAIN loc THEN loc[f] ELSE stamp[f]]


----------------------------------------------------------------------------
(* Mail: main.py 246-264 *)

\* SMTP_HOST, SMTP_USER, SMTP_PASS set or not, and what the server does
SmtpEnvs ==
    {[configured |-> FALSE, transport |-> "none"]}
        \cup [configured : {TRUE},
              transport : {"ok", "unreachable", "login_rejected", "send_failed"}]

\* send_email: it returns False or True, or an smtplib error leaves it
send_email(env) ==
    IF ~env.configured THEN [raised |-> FALSE, ret |-> FALSE]
    ELSE IF env.transport = "ok" THEN [raised |-> FALSE, ret |-> TRUE]
    ELSE [raised |-> TRUE, ret |-> FALSE]

\* the message notify_receiver composes (main.py 272-274)
Message(doc) ==
    [to |-> doc.receiver_email, name |-> doc.receiver_name,
     code |-> doc.tracking_code, status |-> doc.status]

----------------------------------------------------------------------------
(* Requests *)

Workers == 1..NumWorkers

Idle == [pc |-> "idle", doc |-> None, body |-> None]
NoUpload == [pc |-> "idle", code |-> None, url |-> None]

\* what the latest step was: the operation, the token and argument it was
\* called with, its HTTP outcome and what it returned
Event(op, token, arg, out, ret) ==
    [op |-> op, token |-> token, arg |-> arg, out |-> out, ret |-> ret]

\* a handler that has not answered yet
Pending == [status |-> 0, detail |-> "pending"]

\* tokens made without a login of this run: signed with another key, signed
\* for another subject, and one that a login handed out a lifetime and a
\* second before the service started
FarFuture == Seconds(LifetimeTicks * (AuthAdvances + 2))
Forged == [kind |-> "jwt", key |-> "attacker-key", sub |-> ADMIN_EMAIL,
           exp |-> FarFuture]
Foreign == [kind |-> "jwt", key |-> SECRET_KEY, sub |-> "mallory@example.com",
            exp |-> FarFuture]
Stale == create_access_token(ADMIN_EMAIL, 0 - LifetimeTicks - TicksPerSec)

\* the token of a login made as the service starts
Fresh == create_access_token(ADMIN_EMAIL, 0)

\* the bearer tokens a client can present
IssuedTokens == {i.token : i \in issued}
Tokens == {NoToken, Garbage, Forged, Foreign, Stale} \cup IssuedTokens

\* the tracking codes a client can ask for: those of the shipments, and
\* others
Codes(others) == others \cup {store[i].tracking_code : i \in 1..Len(store)}

Files == {[filename |-> "pod.jpg", content |-> "jpeg-bytes"]}

Init ==
    /\ now = 0
    /\ store = <<>>
    /\ file = None
    /\ mail = None
    /\ upd = [w \in Workers |-> Idle]
    /\ prf = NoUpload
    /\ issued = {}
    /\ applied = <<>>
    /\ last = Event("init", NoToken, None, Ok, None)

\* a step that writes no file and sends no mail
Quiet == file' = None /\ mail' = None

\* a request the token dependency turns down (main.py 53-62)
Refused(op, tokens) ==
    \E token \in tokens :
        /\ get_current_admin(token, now) # Ok
        /\ last' = Event(op, token, None, get_current_admin(token, now), None)

\* time passes
Advance(steps, maxAdvances) ==
    \E d \in steps :
        /\ Advances(now + d) <= maxAdvances
        /\ now' = now + d
        /\ last' = Event("advance", NoToken, None, Ok, None)
        /\ Quiet
        /\ UNCHANGED <<store, upd, prf, issued, applied>>

\* POST /auth/login (main.py 98-103)
Login(maxIssued) ==
    \E username \in Usernames, password \in Passwords :
        LET out == login(username, password)
            token == create_access_token(ADMIN_EMAIL, now)
        IN  /\ IF out = Ok
               THEN /\ \/ Cardinality(issued) < maxIssued
                       \/ [token |-> token, at |-> now] \in issued
                    /\ issued' = issued \cup {[token |-> token, at |-> now]}
                    /\ last' = Event("login", NoToken, <<username, password>>,
                                     Ok, Some(token))
               ELSE /\ issued' = issued
                    /\ last' = Event("login", NoToken, <<username, password>>,
                                     out, None)
            /\ Quiet
            /\ UNCHANGED <<now, store, upd, prf, applied>>

\* POST /shipments (main.py 120-142)
CreateShipment(tokens, bodies, maxShipments) ==
    /\ \/ Refused("create", tokens) /\ UNCHANGED <<store, applied>>
       \/ \E token \in tokens :
            /\ get_current_admin(token, now) = Ok
            /\ \E body \in bodies :
                 LET tracking_code == generate_tracking_code(now)
                 IN  IF ~ShipmentCreate(body)
                     THEN /\ last' = Event("create", token, Some(body),
                                           ValidationError, None)
                          /\ UNCHANGED <<store, applied>>
                     ELSE /\ Len(store) < maxShipments
                          /\ store' = insert_one(store,
                                          Shipment(tracking_code, body, now))
                          /\ applied' = Append(applied, <<>>)
                          /\ last' = Event("create", token, Some(body), Ok,
                                           Some([id |-> Len(store) + 1,
                                                 tracking_code |-> tracking_code]))
    /\ Quiet
    /\ UNCHANGED <<now, upd, prf, issued>>

\* GET /shipments (main.py 145-150)
ListShipments(tokens) ==
    /\ \/ Refused("list", tokens)
       \/ \E token \in tokens :
            /\ get_current_admin(token, now) = Ok
            /\ \E items \in find_sort_limit(store) :
                 last' = Event("list", token, None, Ok, Some(items))
    /\ Quiet
    /\ UNCHANGED <<now, store, upd, prf, issued, applied>>

\* GET /track/{tracking_code} (main.py 153-159): no token is asked for
PublicTrack(others) ==
    /\ \E code \in Codes(others) :
         LET doc == find_one(store, code)
         IN  last' = IF doc = None
                     THEN Event("track", NoToken, Some(code),
                                TrackingNotFound, None)
                     ELSE Event("track", NoToken, Some(code), Ok, doc)
    /\ Quiet
    /\ UNCHANGED <<now, store, upd, prf, issued, applied>>

\* of the document update_shipment has read it uses _id and timeline
Read(doc) == [_id |-> doc._id, timeline |-> doc.timeline]

RECURSIVE TotalLen(_)
TotalLen(ss) == IF ss = <<>> THEN 0 ELSE Len(Head(ss)) + TotalLen(Tail(ss))

\* status updates written so far or about to be written
StatusUpdates ==
    TotalLen(applied)
        + Cardinality({w \in Workers : /\ upd[w].pc = "found"
                                       /\ upd[w].body[1].status # None})

\* PATCH /shipments/{tracking_code}, up to the document read (main.py 162-166)
UpdateFind(w, tokens, others, bodies, maxUpdates) ==
    /\ upd[w].pc = "idle"
    /\ \/ Refused("update", tokens) /\ upd' = upd
       \/ \E token \in tokens :
            /\ get_current_admin(token, now) = Ok
            /\ \E code \in Codes(others), body \in bodies :
                 LET doc == find_one(store, code)
                     arg == Some([code |-> code, body |-> body])
                 IN  IF ~ShipmentUpdate(body)
                     THEN /\ last' = Event("update", token, arg,
                                           ValidationError, None)
                          /\ upd' = upd
                     ELSE IF doc = None
                     THEN /\ last' = Event("update", token, arg,
                                           ShipmentNotFound, None)
                          /\ upd' = upd
                     ELSE /\ body.status = None \/ StatusUpdates < maxUpdates
                          /\ last' = Event("update", token, arg, Pending, None)
                          /\ upd' = [upd EXCEPT ![w] =
                                        [pc |-> "found", doc |-> Some(Read(doc[1])),
                                         body |-> Some(body)]]
    /\ Quiet
    /\ UNCHANGED <<now, store, prf, issued, applied>>

\* ... the $set it builds and writes (main.py 168-179)
UpdateWrite(w) ==
    /\ upd[w].pc = "found"
    /\ LET doc == upd[w].doc[1]
           body == upd[w].body[1]
       IN  /\ store' = update_by_id(store, doc._id, Updates(doc, body, now))
           /\ applied' = IF body.status = None THEN applied
                         ELSE [applied EXCEPT ![doc._id] =
                                  Append(@, body.status[1])]
           /\ upd' = [upd EXCEPT ![w] =
                         [pc |-> "written", doc |-> Some(doc._id), body |-> None]]
           /\ last' = Event("update_one", NoToken, None, Pending, None)
    /\ Quiet
    /\ UNCHANGED <<now, prf, issued>>

\* ... and the document it reads back and returns (main.py 180-182)
UpdateReturn(w) ==
    /\ upd[w].pc = "written"
    /\ upd' = [upd EXCEPT ![w] = Idle]
    /\ last' = Event("update_done", NoToken, None, Ok,
                     Some(find_by_id(store, upd[w].doc[1])))
    /\ Quiet
    /\ UNCHANGED <<now, store, prf, issued, applied>>

\* POST /shipments/{tracking_code}/proof, up to the file written
\* (main.py 185-192)
ProofStore(tokens, others) ==
    /\ prf.pc = "idle"
    /\ \/ Refused("proof", tokens) /\ file' = None /\ prf' = prf
       \/ \E token \in tokens :
            /\ get_current_admin(token, now) = Ok
            /\ \E code \in Codes(others), f \in Files :
                 LET fname == <<"logs", code, f.filename>>
                 IN  /\ file' = Some([name |-> fname, content |-> f.content])
                     /\ prf' = [pc |-> "stored", code |-> Some(code),
                                url |-> Some(fname)]
                     /\ last' = Event("proof", token, None, Pending, None)
    /\ mail' = None
    /\ UNCHANGED <<now, store, upd, issued, applied>>

\* ... the $set of proof_of_delivery_url and the answer (main.py 193-194)
ProofSet ==
    /\ prf.pc = "stored"
    /\ store' = update_by_code(store, prf.code[1],
                               [proof_of_delivery_url |-> prf.url])
    /\ prf' = NoUpload
    /\ last' = Event("proof_done", NoToken, prf.code, Ok, prf.url)
    /\ Quiet
    /\ UNCHANGED <<now, upd, issued, applied>>

\* POST /shipments/{tracking_code}/notify (main.py 267-275)
NotifyReceiver(tokens, others) ==
    /\ \/ Refused("notify", tokens) /\ mail' = None
       \/ \E token \in tokens :
            /\ get_current_admin(token, now) = Ok
            /\ \E code \in Codes(others), env \in SmtpEnvs :
                 LET doc == find_one(store, code)
                     ok == send_email(env)
                 IN  IF doc = None
                     THEN /\ last' = Event("notify", token, Some(code),
                                           ShipmentNotFound, None)
                          /\ mail' = None
                     ELSE IF ok.raised
                     THEN /\ last' = Event("notify", token, Some(env),
                                           InternalError, None)
                          /\ mail' = None
                     ELSE /\ last' = Event("notify", token, Some(env), Ok,
                                           Some([sent |-> ok.ret]))
                          /\ mail' = IF ok.ret THEN Some(Message(doc[1]))
                                     ELSE None
    /\ file' = None
    /\ UNCHANGED <<now, store, upd, prf, issued, applied>>

----------------------------------------------------------------------------
(* Specifications *)

\* the handlers that write the collection, served by concurrent workers to
\* a client that holds no token or the token of a login at the start
Next ==
    \/ Advance({1}, MaxTicks)
    \/ CreateShipment({NoToken, Fresh}, {AnyBody}, MaxShipments)
    \/ \E w \in Workers : UpdateFind(w, {NoToken, Fresh}, {}, UpdateBodies, MaxUpdates)
    \/ \E w \in Workers : UpdateWrite(w)
    \/ \E w \in Workers : UpdateReturn(w)
    \/ ProofStore({NoToken, Fresh}, {})
    \/ ProofSet

Spec == Init /\ [][Next]_vars

\* no worker is serving an update
NoUpdateInFlight == \A w \in Workers : upd[w].pc = "idle"

\* the same, with the updates issued one after the other
NextSeq ==
    \/ Advance({1}, MaxTicks)
    \/ CreateShipment({NoToken, Fresh}, {AnyBody}, MaxShipments)
    \/ \E w \in Workers :
           NoUpdateInFlight /\ UpdateFind(w, {NoToken, Fresh}, {}, UpdateBodies, MaxUpdates)
    \/ \E w \in Workers : UpdateWrite(w)
    \/ \E w \in Workers : UpdateReturn(w)
    \/ ProofStore({NoToken, Fresh}, {})
    \/ ProofSet

SpecSeq == Init /\ [][NextSeq]_vars

\* every handler at one instant, served by one worker to clients that
\* present every kind of token, body and code
NextOne ==
    \/ Login(MaxIssued)
    \/ CreateShipment(Tokens, CreateBodies, OneShipments)
    \/ ListShipments(Tokens)
    \/ PublicTrack({UnknownCode})
    \/ UpdateFind(1, Tokens, {UnknownCode}, UpdateBodies, OneUpdates)
    \/ UpdateWrite(1)
    \/ UpdateReturn(1)
    \/ ProofStore(Tokens, {UnknownCode})
    \/ ProofSet
    \/ NotifyReceiver(Tokens, {UnknownCode})

SpecOne == Init /\ [][NextOne]_vars

\* shipments created as the clock ticks, and looked up
NextCodes ==
    \/ Advance({1}, CodeTicks)
    \/ CreateShipment({NoToken, Fresh}, ValidBodies, CodeShipments)
    \/ ListShipments({NoToken, Fresh})
    \/ PublicTrack({UnknownCode})

SpecCodes == Init /\ [][NextCodes]_vars

\* the life of a token: logins, the clock moving by ticks and by lifetimes,
\* and an admin route asked with every token
NextAuth ==
    \/ Advance(ClockSteps, AuthAdvances)
    \/ Login(MaxIssued)
    \/ ListShipments(Tokens)

SpecAuth == Init /\ [][NextAuth]_vars

\* bodies of status updates that race
RaceBodies ==
    [status : {Some("In Transit"), Some("Delivered")},
     location : {None} \cup {Some(l) : l \in Locations}]

\* status and location updates served by concurrent workers, and proof
\* uploads, at one instant
NextRace ==
    \/ CreateShipment({NoToken, Fresh}, {AnyBody}, RaceShipments)
    \/ \E w \in Workers : UpdateFind(w, {NoToken, Fresh}, {}, RaceBodies, RaceUpdates)
    \/ \E w \in Workers : UpdateWrite(w)
    \/ \E w \in Workers : UpdateReturn(w)
    \/ ProofStore({NoToken, Fresh}, {})
    \/ ProofSet

SpecRace == Init /\ [][NextRace]_vars

\* one status after the other set on a shipment, by one worker
NextChain ==
    \/ CreateShipment({NoToken, Fresh}, {AnyBody}, ChainShipments)
    \/ UpdateFind(1, {NoToken, Fresh}, {}, StatusBodies, ChainUpdates)
    \/ UpdateWrite(1)
    \/ UpdateReturn(1)

SpecChain == Init /\ [][NextChain]_vars

\* the collection after n shipments were created, one a second, but the
\* third in the same tick as the second: the i-th insert_one stored the i-th
\* document under _id i
BulkLoad(n) ==
    [i \in 1..n |->
        LET t == IF i = 3 THEN TicksPerSec ELSE (i - 1) * TicksPerSec
            doc == Shipment(generate_tracking_code(t), AnyBody, t)
        IN  [f \in DOMAIN doc \cup {"_id"} |->
                IF f = "_id" THEN i ELSE doc[f]]]

\* ... and after an update of the oldest shipment a tick before instant t
BulkTouched(n, t) ==
    LET coll == BulkLoad(n)
    IN  IF n = 0 THEN coll
        ELSE update_by_id(coll, coll[1]._id, Updates(coll[1], EmptyUpdate, t - 1))

\* the service a second after the last of BulkSize creates
InitList ==
    /\ now = BulkSize * TicksPerSec
    /\ store = BulkTouched(BulkSize, BulkSize * TicksPerSec)
    /\ file = None
    /\ mail = None
    /\ upd = [w \in Workers |-> Idle]
    /\ prf = NoUpload
    /\ issued = {}
    /\ applied = [i \in 1..BulkSize |-> <<>>]
    /\ last = Event("init", NoToken, None, Ok, None)

\* listing a collection that grows past the page size
NextList ==
    \/ Advance({1}, BulkSize * TicksPerSec + ListTicks)
    \/ CreateShipment({NoToken, Fresh}, {AnyBody}, BulkSize + ListCreates)
    \/ ListShipments({NoToken, Fresh})

SpecList == InitList /\ [][NextList]_vars

----------------------------------------------------------------------------
(* Properties *)

IsPrefix(a, b) == Len(a) <= Len(b) /\ \A k \in 1..Len(a) : a[k] = b[k]

Count(seq, x) == Cardinality({k \in 1..Len(seq) : seq[k] = x})

Statuses(timeline) == [k \in 1..Len(timeline) |-> timeline[k].status]

\* C1: once the updates of a tracking code that supplied a status have all
\* completed, however their store calls interleaved, the timeline holds the
\* seed entry and one entry for each of them, none missing.
C1_BothEntriesKept ==
    NoUpdateInFlight =>
        \A i \in 1..Len(store) :
            /\ Len(store[i].timeline) = 1 + Len(applied[i])
            /\ \A x \in Range(applied[i]) :
                   Count(Tail(Statuses(store[i].timeline)), x) = Count(applied[i], x)

\* C2: across every step each timeline only grows at its end: the timeline
\* before is a prefix of the timeline after, at most one entry longer, and
\* exactly one longer when the step changes the status.
C2_AppendOnly ==
    [][/\ Len(store) <= Len(store')
       /\ \A i \in 1..Len(store) :
            /\ IsPrefix(store[i].timeline, store'[i].timeline)
            /\ Len(store'[i].timeline) <= Len(store[i].timeline) + 1
            /\ store'[i].status # store[i].status =>
                   Len(store'[i].timeline) = Len(store[i].timeline) + 1]_vars

\* C3: with the updates applied one after the other, a shipment that N
\* status updates were applied to has N+1 timeline entries: the seed entry
\* "Order Received", then the updates' statuses in the order applied.
C3_SeedPlusUpdatesInOrder ==
    \A i \in 1..Len(store) :
        /\ Len(store[i].timeline) = Len(applied[i]) + 1
        /\ Statuses(store[i].timeline) = <<"Order Received">> \o applied[i]

C3_Witness ==
    /\ NoUpdateInFlight
    /\ \E i \in 1..Len(store) : applied[i] = <<"In Transit", "Delivered">>

\* C4: no two shipment records carry the same tracking code.
C4_TrackingCodesUnique ==
    \A i, j \in 1..Len(store) :
        i # j => store[i].tracking_code # store[j].tracking_code

\* C5: the code a Create has returned is found by a lookup, and the record
\* found holds the content fields that were submitted to that Create.
C5_LookupReturnsCreated ==
    (last.op = "create" /\ last.out = Ok) =>
        LET doc == find_one(store, last.ret[1].tracking_code)
        IN  doc # None /\ Content(doc[1]) = Content(last.arg[1])

\* the routes behind the token dependency, by the name of their first step
AdminOps == {"create", "list", "update", "proof", "notify"}

\* a token that is missing, malformed, forged, expired or of another subject
BadToken(token, t) ==
    \/ token.kind \in {"missing", "malformed"}
    \/ token.key # SECRET_KEY
    \/ token.exp < Seconds(t)
    \/ token.sub # ADMIN_EMAIL

\* C6: an admin route asked with a bad token answers 401 and does nothing:
\* the collection and the requests in progress are as before, no file is
\* written and no mail is sent.
C6_BadTokenDoesNothing ==
    [][(last'.op \in AdminOps /\ BadToken(last'.token, now')) =>
          /\ last'.out.status = 401
          /\ store' = store /\ applied' = applied
          /\ upd' = upd /\ prf' = prf
          /\ file' = None /\ mail' = None]_vars

C6_Witness ==
    /\ last.op = "update"
    /\ last.token = Stale
    /\ last.out = CredentialsException
    /\ store # <<>>

\* what presenting a token to an admin route at instant t leads to
Accepted(token, t) == get_current_admin(token, t) = Ok

\* C7 as claimed: a token issued at instant t is accepted at every instant
\* before t + 12 h and rejected at every instant after t + 12 h.
C7_ExactLifetime ==
    \A i \in issued :
        /\ now < i.at + LifetimeTicks => Accepted(i.token, now)
        /\ now > i.at + LifetimeTicks => ~Accepted(i.token, now)

\* C7 as amended: a token issued at instant t is accepted at every instant
\* before t + 12 h and rejected at every instant from t + 12 h + 1 s on; an
\* admin route asked with it answers accordingly.
C7_LifetimeToTheSecond ==
    \A i \in issued :
        /\ now < i.at + LifetimeTicks => Accepted(i.token, now)
        /\ now >= i.at + LifetimeTicks + TicksPerSec => ~Accepted(i.token, now)
        /\ (last.op \in AdminOps /\ last.token = i.token) =>
              /\ now < i.at + LifetimeTicks => last.out = Ok
              /\ now >= i.at + LifetimeTicks + TicksPerSec => last.out.status = 401

C7_Witness ==
    \E i \in issued :
        /\ last.op = "list" /\ last.token = i.token
        /\ now >= i.at + LifetimeTicks + TicksPerSec
        /\ last.out = CredentialsException

\* C8: a login with anything but the admin identity and its password yields
\* no token, and its outcome is the same whether the identity or the
\* password was wrong.
C8_WrongCredentialsOneOutcome ==
    /\ (last.op = "login" /\ last.arg # <<ADMIN_EMAIL, ADMIN_PASSWORD>>) =>
           last.out = InvalidCredentials /\ last.ret = None
    /\ \A u \in Usernames \ {ADMIN_EMAIL}, p, q \in Passwords \ {ADMIN_PASSWORD} :
           login(u, p) = login(ADMIN_EMAIL, q)

C8_Witness ==
    /\ last.op = "login"
    /\ last.arg = <<"mallory@example.com", ADMIN_PASSWORD>>
    /\ last.out = InvalidCredentials

\* C9: a proof upload for a tracking code that no shipment carries answers
\* NotFound.
C9_UnknownCodeNotFound ==
    (last.op = "proof_done" /\ find_one(store, last.arg[1]) = None) =>
        last.out = ShipmentNotFound

\* C10: a notify for an existing shipment always answers normally, with
\* sent = true when the transport took the message and sent = false when it
\* is unconfigured, unreachable, rejects the login or fails to deliver.
C10_NotifyNeverFails ==
    (last.op = "notify" /\ last.out.status \notin {401, 404}) =>
        /\ last.out = Ok
        /\ last.ret[1].sent =
               (last.arg[1].configured /\ last.arg[1].transport = "ok")

\* C11: last_update is the instant of the latest mutation: every step that
\* inserts a record or changes one (create, status/location update, proof
\* upload) leaves that record's last_update at the current instant.
C11_LastUpdateIsLatestMutation ==
    [][\A i \in 1..Len(store') :
          (i > Len(store) \/ store'[i] # store[i]) =>
              store'[i].last_update = Some(now')]_vars

\* C12: the write of an update that supplies neither status nor location
\* sets the last_update of its shipment to the current instant and changes
\* nothing else: status, timeline, location, proof_of_delivery_url and every
\* other record are as before.
C12_EmptyUpdateOnlyStamps ==
    [][\A w \in Workers :
          (/\ upd[w].pc = "found" /\ upd'[w].pc = "written"
           /\ upd[w].body[1] = EmptyUpdate) =>
              \A i \in 1..Len(store) :
                  IF store[i]._id = upd[w].doc[1]._id
                  THEN /\ store'[i].last_update = Some(now')
                       /\ store'[i] = [store[i] EXCEPT !.last_update = Some(now')]
                  ELSE store'[i] = store[i]]_vars

C12_Witness ==
    /\ now > 0
    /\ last.op = "update_one"
    /\ \E w \in Workers, i \in 1..Len(store) :
          /\ upd[w].pc = "written" /\ upd[w].doc[1] = store[i]._id
          /\ store[i].last_update = Some(now)
          /\ store[i].timeline = <<TimelineEntry("Order Received", 0)>>
          /\ store[i].status = "Order Received"
          /\ store[i].location = None

\* the fields of a shipment that are fixed when it is created
CreationFields ==
    {"tracking_code", "sender_name", "receiver_name", "receiver_email",
     "receiver_phone", "address", "country", "weight", "description", "amount"}

\* C13: no step changes the tracking code or a content field of a stored
\* shipment: update, proof upload, notify, list and lookup leave them as
\* create wrote them.
C13_ContentImmutable ==
    [][/\ Len(store) <= Len(store')
       /\ \A i \in 1..Len(store), f \in CreationFields :
              store'[i][f] = store[i][f]]_vars

C13_Witness ==
    /\ last.op = "notify" /\ last.out = Ok
    /\ \E i \in 1..Len(store) :
          /\ store[i].sender_name = "Cy"
          /\ store[i].status = "Delivered"
          /\ store[i].location # None
          /\ store[i].proof_of_delivery_url # None

\* C14: a create whose body has a negative weight, a negative amount or a
\* receiver_email that is no email address answers with a validation error,
\* and the collection is as before.
C14_InvalidCreatePersistsNothing ==
    [][(/\ last'.op = "create" /\ last'.arg # None
        /\ \/ last'.arg[1].weight < 0
           \/ last'.arg[1].amount < 0
           \/ last'.arg[1].receiver_email = "not-an-email") =>
              /\ last'.out = ValidationError
              /\ last'.ret = None
              /\ store' = store]_vars

C14_Witness ==
    /\ last.op = "create" /\ last.out = ValidationError
    /\ last.arg[1].amount < 0
    /\ store # <<>>

\* C15: a create that succeeds adds exactly one record: its status is
\* "Order Received", its timeline is the single entry "Order Received", its
\* last_update is set, and the records stored before are unchanged.
C15_CreateAddsOneRecord ==
    [][(last'.op = "create" /\ last'.out = Ok) =>
          /\ Len(store') = Len(store) + 1
          /\ \A i \in 1..Len(store) : store'[i] = store[i]
          /\ store'[Len(store')].status = "Order Received"
          /\ Statuses(store'[Len(store')].timeline) = <<"Order Received">>
          /\ store'[Len(store')].last_update # None]_vars

C15_Witness ==
    /\ last.op = "create" /\ last.out = Ok
    /\ Len(store) = 2
    /\ store[2].status = "Order Received"

\* no stored shipment carries the code
Unused(code) == \A i \in 1..Len(store) : store[i].tracking_code # code

\* C16: a lookup by a code that no shipment carries answers NotFound,
\* whatever the caller (no token is asked for), and the collection is as
\* before; an update with such a code and a well-formed body answers NotFound
\* too, and changes neither the collection nor the requests in progress.
C16_UnusedCodeIsNotFound ==
    [][/\ (last'.op = "track" /\ Unused(last'.arg[1])) =>
              /\ last'.out = TrackingNotFound
              /\ last'.out.status = 404
              /\ last'.token = NoToken
              /\ store' = store
       /\ (/\ last'.op = "update" /\ last'.arg # None
           /\ Unused(last'.arg[1].code)
           /\ \/ last'.arg[1].body.status = None
              \/ last'.arg[1].body.status[1] \in StatusLiteral) =>
              /\ last'.out = ShipmentNotFound
              /\ last'.out.status = 404
              /\ store' = store /\ upd' = upd /\ applied' = applied]_vars

C16_Witness ==
    /\ last.op = "update" /\ last.out = ShipmentNotFound
    /\ last.arg[1].code = UnknownCode
    /\ last.arg[1].body.status = Some("Delivered")
    /\ store # <<>>

\* C17: a list returns at most 200 stored records in descending order of
\* last_update, and no record it leaves out was updated later than one it
\* returns.
C17_ListIsLatestPage ==
    (last.op = "list" /\ last.out = Ok) =>
        LET items == last.ret[1]
            Returned == {items[k]._id : k \in 1..Len(items)}
        IN  /\ Len(items) <= 200
            /\ Cardinality(Returned) = Len(items)
            /\ \A k \in 1..Len(items) : items[k] = store[items[k]._id]
            /\ \A k \in 1..(Len(items) - 1) :
                   items[k].last_update[1] >= items[k + 1].last_update[1]
            /\ \A i \in 1..Len(store) :
                   store[i]._id \notin Returned =>
                       \A k \in 1..Len(items) :
                           items[k].last_update[1] >= store[i].last_update[1]

C17_Witness ==
    /\ last.op = "list" /\ last.out = Ok
    /\ Len(store) > 200
    /\ Len(last.ret[1]) = 200
    /\ \E k \in 1..Len(last.ret[1]) : last.ret[1][k]._id = 1
    /\ \E k \in 1..Len(last.ret[1]) : last.ret[1][k]._id = 2
    /\ \A k \in 1..Len(last.ret[1]) : last.ret[1][k]._id # 3
    /\ \E i \in 1..Len(store) :
           \A k \in 1..Len(last.ret[1]) : last.ret[1][k]._id # store[i]._id

\* C18: an update that supplies a status of the enumeration is accepted
\* whatever the shipment's current status, its write sets the status and
\* appends one timeline entry with it (also when the status moves backwards
\* or stays the same), and it returns the record; a status outside the
\* enumeration is refused and never stored.
C18_AnyStatusFollowsAny ==
    [][/\ (/\ last'.op = "update" /\ last'.arg # None
           /\ ~Unused(last'.arg[1].code)) =>
              IF last'.arg[1].body.status[1] \in StatusLiteral
              THEN last'.out = Pending
              ELSE /\ last'.out = ValidationError
                   /\ store' = store /\ upd' = upd
       /\ \A w \in Workers :
            (/\ upd[w].pc = "found" /\ upd'[w].pc = "written"
             /\ upd[w].body[1].status # None) =>
                \A i \in 1..Len(store) :
                    store[i]._id = upd[w].doc[1]._id =>
                        /\ store'[i].status = upd[w].body[1].status[1]
                        /\ store'[i].timeline =
                               Append(store[i].timeline,
                                      [status |-> upd[w].body[1].status[1],
                                       timestamp |-> now'])
       /\ last'.op = "update_done" =>
              /\ last'.out = Ok
              /\ last'.ret[1] \in Range(store')
       /\ \A i \in 1..Len(store') :
              /\ store'[i].status \in StatusLiteral
              /\ \A k \in 1..Len(store'[i].timeline) :
                     store'[i].timeline[k].status \in StatusLiteral]_vars

C18_Witness ==
    /\ last.op = "update_done" /\ last.out = Ok
    /\ last.ret[1].status = "Package Pickup"
    /\ Statuses(last.ret[1].timeline) =
           <<"Order Received", "Delivered", "Package Pickup">>

\* C19: in every state, whatever the interleaving of the requests, the
\* timeline of each shipment is non-empty and its status is the status of
\* the last timeline entry.
C19_StatusIsLastEntry ==
    \A i \in 1..Len(store) :
        /\ store[i].timeline # <<>>
        /\ store[i].status = store[i].timeline[Len(store[i].timeline)].status

\* two status updates have interleaved and one timeline entry was lost
C19_Witness ==
    /\ NoUpdateInFlight
    /\ \E i \in 1..Len(store) :
          /\ applied[i] = <<"In Transit", "Delivered">>
          /\ Statuses(store[i].timeline) = <<"Order Received", "Delivered">>
          /\ store[i].status = "Delivered"

\* C20: when a proof upload and an update of one shipment interleave, each
\* write keeps what the other wrote: the update's write sets its status, its
\* timeline entry and its location and leaves proof_of_delivery_url as it
\* is, and the upload's write sets proof_of_delivery_url and leaves every
\* other field as it is.
C20_ProofAndUpdateKeepEachOther ==
    [][/\ \A w \in Workers :
            (upd[w].pc = "found" /\ upd'[w].pc = "written") =>
                \A i \in 1..Len(store) :
                    IF store[i]._id = upd[w].doc[1]._id
                    THEN LET body == upd[w].body[1]
                             new == store'[i]
                         IN  /\ new.proof_of_delivery_url =
                                    store[i].proof_of_delivery_url
                             /\ body.status # None =>
                                    /\ new.status = body.status[1]
                                    /\ new.timeline[Len(new.timeline)] =
                                           [status |-> body.status[1],
                                            timestamp |-> now']
                             /\ body.location # None =>
                                    new.location = body.location
                    ELSE store'[i] = store[i]
       /\ (prf.pc = "stored" /\ prf'.pc = "idle") =>
              /\ \E i \in 1..Len(store) :
                     /\ store[i].tracking_code = prf.code[1]
                     /\ store'[i].proof_of_delivery_url = prf.url
              /\ \A i \in 1..Len(store) :
                     \A f \in DOMAIN store[i] \ {"proof_of_delivery_url"} :
                         store'[i][f] = store[i][f]]_vars

\* an upload has set the proof url between the write and the answer of an
\* update that set status and location
C20_Witness ==
    /\ last.op = "proof_done"
    /\ \E w \in Workers, i \in 1..Len(store) :
          /\ upd[w].pc = "written" /\ upd[w].doc[1] = store[i]._id
          /\ store[i].proof_of_delivery_url = last.ret
          /\ store[i].proof_of_delivery_url # None
          /\ store[i].status = "Delivered"
          /\ store[i].location # None
          /\ Len(store[i].timeline) = 2

====
